---- MODULE Spec2Model ----
(***************************************************************************)
(* Model of src/engine/pdf_to_image.c: main() rasterizes page 0 of a       *)
(* document at 4x zoom into a grayscale pixmap (MuPDF) and write_png_fast  *)
(* encodes that pixmap into <prefix>.png (libpng).  The program is one     *)
(* sequential process; pc is its position in main / write_png_fast.        *)
(*                                                                         *)
(* Coordinates are fixed point: one unit is 1/Res of a point (or pixel),   *)
(* so fractional page boxes and the rounding of fz_round_rect are exact.   *)
(***************************************************************************)
EXTENDS Integers, Sequences, FiniteSets, TLC

\* ------------------------------------------------------------------ bounds
MaxArgc == 4          \* argc ranges over 1..MaxArgc
MaxPad == 1           \* pixmap stride is w + 0..MaxPad bytes
MaxFailRow == 2       \* a failing png_write_image fails after 0..MaxFailRow rows
MaxLost == 1          \* chunks still buffered that a failing flush loses
MaxOverrun == 2       \* longest prefix is OutNameSize + MaxOverrun characters

\* --------------------------------------------------------- program constants
OutNameSize == 256    \* char out_name[256]
Zoom == 4             \* fz_scale(4.0f, 4.0f)
BitDepth == 8         \* png_set_IHDR(..., 8, ...)
ClearValue == 255     \* fz_clear_pixmap_with_value(ctx, pix, 0xFF)
Res == 10000          \* fixed-point units per point / per pixel
Fuzz == Res \div 1000 \* the 0.001 tolerance of fz_round_rect

PNG_COLOR_TYPE_GRAY == "GRAY"
PNG_INTERLACE_NONE == "NONE"

Min(a, b) == IF a < b THEN a ELSE b
Max(a, b) == IF a < b THEN b ELSE a

\* ------------------------------------------------------------ pure helpers
\* floorf / ceilf of a fixed-point value, as an integer
Floor(v) == v \div Res
Ceil(v) == -((-v) \div Res)

\* fz_scale(sx, sy)
fz_scale(sx, sy) == [a |-> sx, b |-> 0, c |-> 0, d |-> sy, e |-> 0, f |-> 0]

\* fz_concat(one, two): apply one, then two
fz_concat(one, two) ==
    [a |-> one.a * two.a + one.b * two.c,
     b |-> one.a * two.b + one.b * two.d,
     c |-> one.c * two.a + one.d * two.c,
     d |-> one.c * two.b + one.d * two.d,
     e |-> one.e * two.a + one.f * two.c + two.e,
     f |-> one.e * two.b + one.f * two.d + two.f]

\* fz_transform_rect for the rectilinear matrices fz_scale produces (b = c = 0)
fz_transform_rect(r, m) ==
    LET ax0 == r.x0 * m.a  ax1 == r.x1 * m.a
        ay0 == r.y0 * m.d  ay1 == r.y1 * m.d
    IN  [x0 |-> Min(ax0, ax1) + m.e * Res, y0 |-> Min(ay0, ay1) + m.f * Res,
         x1 |-> Max(ax0, ax1) + m.e * Res, y1 |-> Max(ay0, ay1) + m.f * Res]

\* fz_round_rect: floorf(x0 + 0.001f), ceilf(x1 - 0.001f)
fz_round_rect(r) ==
    [x0 |-> Floor(r.x0 + Fuzz), y0 |-> Floor(r.y0 + Fuzz),
     x1 |-> Ceil(r.x1 - Fuzz),  y1 |-> Ceil(r.y1 - Fuzz)]

\* fz_transform_point
fz_transform_point(p, m) ==
    [x |-> p.x * m.a + p.y * m.c + m.e * Res,
     y |-> p.x * m.b + p.y * m.d + m.f * Res]

\* snprintf(out_name, sizeof out_name, "%s.png", argv[2]): at most size-1 chars
DotPng == <<".", "p", "n", "g">>
FormatOutName(prefix, size) ==
    LET full == prefix \o DotPng
    IN  SubSeq(full, 1, Min(Len(full), size - 1))

\* chunks of the PNG stream
Hdr(w, h, depth, color, interlace) ==
    [kind |-> "IHDR", w |-> w, h |-> h, depth |-> depth, color |-> color,
     interlace |-> interlace, off |-> 0]
Row(off) ==
    [kind |-> "ROW", w |-> 0, h |-> 0, depth |-> 0, color |-> "", interlace |-> "",
     off |-> off]
End ==
    [kind |-> "IEND", w |-> 0, h |-> 0, depth |-> 0, color |-> "", interlace |-> "",
     off |-> 0]

RowPointers_Width(p) == [y \in 1..p.h |-> (y - 1) * p.w]

\* rows[y] = pix->samples + (size_t)y * pix->stride, y = 0..h-1 (1-based here)
RowPointers(p) == [y \in 1..p.h |-> (y - 1) * p.stride]

\* png_write_image on a non-interlaced image: one pass, rows[0..n-1] in order
WriteRows(rs, n) == [i \in 1..n |-> Row(rs[i])]

\* ------------------------------------------------------------------ inputs
Rect(x0, y0, x1, y1) == [x0 |-> x0, y0 |-> y0, x1 |-> x1, y1 |-> y1]
LetterPage == Rect(0, 0, 612 * Res, 792 * Res)
Pages ==
    { LetterPage,
      Rect(0, 0, Res, Res),
      Rect(0, 0, 3000, 5500),
      Rect(0, 0, 5001, Res),
      Rect(0, 0, 612 * Res + 1, 792 * Res),
      Rect(-3000, 2000, Res, 15000),
      Rect(2499, 0, Res, 7500) }

Inputs == {"valid", "missing", "garbage", "empty"}

PrefixLens ==
    {1, 2, OutNameSize - 5, OutNameSize - 4, OutNameSize - 1,
     OutNameSize + MaxOverrun}
Prefix(n) == [i \in 1..n |-> IF i % 2 = 1 THEN "a" ELSE "b"]

NoFile == [exists |-> FALSE, data |-> <<>>]
OldFile == [exists |-> TRUE,
            data |-> <<Hdr(1, 1, BitDepth, PNG_COLOR_TYPE_GRAY, PNG_INTERLACE_NONE),
                       Row(0), End>>]

NoRect == Rect(0, 0, 0, 0)
NoPix == [w |-> 0, h |-> 0, stride |-> 0, fill |-> -1, writes |-> 0]
NoDev == [transform |-> fz_scale(1, 1), closed |-> FALSE]

VARIABLES
    pc,          \* position in main / write_png_fast
    argc,        \* argument count, program name included
    prefix,      \* argv[2]
    input,       \* what argv[1] names
    pagebox,     \* fz_bound_page of page 0
    exitStatus,  \* -1 while running
    cause,       \* why the process ended
    stdout, stderr,
    held,        \* handles currently owned
    acq, rel,    \* order of acquisition / release
    uaf,         \* some call used a handle after its release
    mtx, bbox, pix, dev,
    ctmEff,      \* transform the draw device applied to page content
    painted,     \* pixels the page content touched
    out_name,
    opened,      \* fopen(fname, "wb") succeeded
    handoff,     \* pix.writes when pix was passed to write_png_fast, -1 before
    png,         \* encoder state: "none", "created", "destroyed"
    rows,        \* row pointer array
    stream,      \* chunks given to the FILE
    disk0, disk  \* file at out_name before the run / now

vars == <<pc, argc, prefix, input, pagebox, exitStatus, cause, stdout, stderr,
          held, acq, rel, uaf, mtx, bbox, pix, dev, ctmEff, painted, out_name,
          opened, handoff, png, rows, stream, disk0, disk>>

rasterVars == <<mtx, bbox, pix, dev, ctmEff, painted>>
encVars == <<out_name, opened, handoff, png, rows, stream, disk>>
ioVars == <<stdout, stderr>>
handleVars == <<held, acq, rel, uaf>>
inVars == <<argc, prefix, input, pagebox, disk0>>

Init ==
    /\ pc = "main"
    /\ argc \in 1..MaxArgc
    /\ prefix \in {Prefix(n) : n \in PrefixLens}
    /\ input \in Inputs
    /\ pagebox \in Pages
    /\ exitStatus = -1
    /\ cause = ""
    /\ stdout = <<>>
    /\ stderr = <<>>
    /\ held = {}
    /\ acq = <<>>
    /\ rel = <<>>
    /\ uaf = FALSE
    /\ mtx = fz_scale(1, 1)
    /\ bbox = NoRect
    /\ pix = NoPix
    /\ dev = NoDev
    /\ ctmEff = fz_scale(1, 1)
    /\ painted = {}
    /\ out_name = <<>>
    /\ opened = FALSE
    /\ handoff = -1
    /\ png = "none"
    /\ rows = <<>>
    /\ stream = <<>>
    /\ disk0 \in {NoFile, OldFile}
    /\ disk = disk0

\* exit(status) / return status from main
Exit(status, why) ==
    /\ pc' = "done"
    /\ exitStatus' = status
    /\ cause' = why

Goto(l) ==
    /\ pc' = l
    /\ UNCHANGED <<exitStatus, cause>>

\* a call that takes the handles hs as arguments
Uses(hs) == uaf' = (uaf \/ ~(hs \subseteq held))

Acquire(h, hs) ==
    /\ held' = held \cup {h}
    /\ acq' = Append(acq, h)
    /\ Uses(hs)
    /\ UNCHANGED rel

Release(h, hs) ==
    /\ held' = held \ {h}
    /\ rel' = Append(rel, h)
    /\ Uses(hs \cup {h})
    /\ UNCHANGED acq

\* an fz_throw with no enclosing fz_try: MuPDF reports it and exits
Uncaught(why) ==
    /\ Exit(1, why)
    /\ stderr' = Append(stderr, "uncaught")
    /\ UNCHANGED <<stdout, handleVars>>

CheckArgs_TooFew ==
    /\ pc = "main"
    /\ IF argc < 3
         THEN /\ stderr' = Append(stderr, "usage")
              /\ Exit(1, "UsageError")
         ELSE /\ Goto("new_context")
              /\ UNCHANGED stderr
    /\ UNCHANGED <<inVars, stdout, handleVars, rasterVars, encVars>>

\* line 42
CheckArgs ==
    /\ pc = "main"
    /\ IF argc # 3
         THEN /\ stderr' = Append(stderr, "usage")
              /\ Exit(1, "UsageError")
         ELSE /\ Goto("new_context")
              /\ UNCHANGED stderr
    /\ UNCHANGED <<inVars, stdout, handleVars, rasterVars, encVars>>

\* lines 46-47
NewContext ==
    /\ pc = "new_context"
    /\ Acquire("ctx", {})
    /\ Goto("open_document")
    /\ UNCHANGED <<inVars, ioVars, rasterVars, encVars>>

OpenDocument_Unchecked ==
    /\ pc = "open_document"
    /\ Acquire("doc", {"ctx"})
    /\ Goto("load_page")
    /\ UNCHANGED <<inVars, ioVars, rasterVars, encVars>>

\* line 48
OpenDocument ==
    /\ pc = "open_document"
    /\ IF input \in {"missing", "garbage"}
         THEN Uncaught("DocumentOpenError")
         ELSE /\ Acquire("doc", {"ctx"})
              /\ Goto("load_page")
              /\ UNCHANGED ioVars
    /\ UNCHANGED <<inVars, rasterVars, encVars>>

\* line 49
LoadPage ==
    /\ pc = "load_page"
    /\ IF input = "empty"
         THEN Uncaught("PageLoadError")
         ELSE /\ Acquire("page", {"ctx", "doc"})
              /\ Goto("bound")
              /\ UNCHANGED ioVars
    /\ UNCHANGED <<inVars, rasterVars, encVars>>

\* lines 51-53
ComputeBBox ==
    /\ pc = "bound"
    /\ mtx' = fz_scale(Zoom, Zoom)
    /\ bbox' = fz_round_rect(fz_transform_rect(pagebox, mtx'))
    /\ Uses({"ctx", "page"})
    /\ Goto("new_pixmap")
    /\ UNCHANGED <<inVars, ioVars, held, acq, rel, pix, dev, ctmEff, painted, encVars>>

\* line 55: w, h from the bbox; the stride is the library's choice, >= w
NewPixmap ==
    /\ pc = "new_pixmap"
    /\ \E pad \in 0..MaxPad :
          pix' = [w |-> bbox.x1 - bbox.x0, h |-> bbox.y1 - bbox.y0,
                  stride |-> (bbox.x1 - bbox.x0) + pad,
                  fill |-> -1, writes |-> 0]
    /\ Acquire("pix", {"ctx"})
    /\ Goto("clear_pixmap")
    /\ UNCHANGED <<inVars, ioVars, mtx, bbox, dev, ctmEff, painted, encVars>>

\* line 56
ClearPixmap ==
    /\ pc = "clear_pixmap"
    /\ pix' = [pix EXCEPT !.fill = ClearValue, !.writes = @ + 1]
    /\ Uses({"ctx", "pix"})
    /\ Goto("new_draw_device")
    /\ UNCHANGED <<inVars, ioVars, held, acq, rel, mtx, bbox, dev, ctmEff, painted, encVars>>

\* line 58
NewDrawDevice ==
    /\ pc = "new_draw_device"
    /\ dev' = [transform |-> mtx, closed |-> FALSE]
    /\ Acquire("dev", {"ctx", "pix"})
    /\ Goto("run_page")
    /\ UNCHANGED <<inVars, ioVars, mtx, bbox, pix, ctmEff, painted, encVars>>

\* the page content: a mark at the centre of the page box and one at its origin
Marks(r) == { [x |-> (r.x0 + r.x1) \div 2, y |-> (r.y0 + r.y1) \div 2],
              [x |-> r.x0, y |-> r.y0] }

\* the draw device maps content by fz_concat(ctm, dev->transform) and clips to
\* the pixmap's bbox
Render(marks, ctm, box) ==
    { q \in { [x |-> Floor(fz_transform_point(m, ctm).x),
               y |-> Floor(fz_transform_point(m, ctm).y)] : m \in marks } :
        /\ box.x0 <= q.x /\ q.x < box.x1
        /\ box.y0 <= q.y /\ q.y < box.y1 }

\* line 59
RunPage ==
    /\ pc = "run_page"
    /\ ctmEff' = fz_concat(mtx, dev.transform)
    /\ painted' = Render(Marks(pagebox), ctmEff', bbox)
    /\ pix' = [pix EXCEPT !.writes = @ + 1]
    /\ Uses({"ctx", "page", "dev", "pix"})
    /\ Goto("close_device")
    /\ UNCHANGED <<inVars, ioVars, held, acq, rel, mtx, bbox, dev, encVars>>

CloseDevice_Skipped ==
    /\ pc = "close_device"
    /\ Uses({"ctx", "dev"})
    /\ Goto("snprintf")
    /\ UNCHANGED <<inVars, ioVars, held, acq, rel, rasterVars, encVars>>

\* line 60
CloseDevice ==
    /\ pc = "close_device"
    /\ dev' = [dev EXCEPT !.closed = TRUE]
    /\ Uses({"ctx", "dev"})
    /\ Goto("snprintf")
    /\ UNCHANGED <<inVars, ioVars, held, acq, rel, mtx, bbox, pix, ctmEff, painted, encVars>>

\* line 62
FormatName ==
    /\ pc = "snprintf"
    /\ out_name' = FormatOutName(prefix, OutNameSize)
    /\ Goto("fopen")
    /\ UNCHANGED <<inVars, ioVars, handleVars, rasterVars, opened, handoff, png, rows,
                   stream, disk>>

\* what a flush of the FILE leaves on disk: everything, or all but the chunks
\* still buffered when the write fails
Flushed(s) == { SubSeq(s, 1, Len(s) - k) : k \in 0..Min(MaxLost, Len(s)) }

\* line 17: the longjmp target, fclose(fp); exit(3)
EncodeFail(s) ==
    /\ stream' = s
    /\ \E d \in Flushed(s) : disk' = [exists |-> TRUE, data |-> d]
    /\ Exit(3, "EncodingFatalError")

Fopen_TruncateThenFail ==
    /\ pc = "fopen"
    /\ handoff' = pix.writes
    /\ Uses({"pix"})
    /\ \E ok \in BOOLEAN :
         IF ok
           THEN /\ opened' = TRUE
                /\ disk' = [exists |-> TRUE, data |-> <<>>]
                /\ Goto("png_create")
                /\ UNCHANGED stderr
           ELSE /\ stderr' = Append(stderr, "fopen")
                /\ Exit(2, "OutputOpenError")
                /\ disk' = [exists |-> TRUE, data |-> <<>>]
                /\ UNCHANGED opened
    /\ UNCHANGED <<inVars, stdout, held, acq, rel, rasterVars, out_name, png, rows, stream>>

Fopen_NoExit ==
    /\ pc = "fopen"
    /\ handoff' = pix.writes
    /\ Uses({"pix"})
    /\ \E ok \in BOOLEAN :
         /\ opened' = ok
         /\ disk' = IF ok THEN [exists |-> TRUE, data |-> <<>>] ELSE disk
         /\ stderr' = IF ok THEN stderr ELSE Append(stderr, "fopen")
         /\ Goto("png_create")
    /\ UNCHANGED <<inVars, stdout, held, acq, rel, rasterVars, out_name, png, rows, stream>>

\* line 63 (the call) and lines 11-12
Fopen ==
    /\ pc = "fopen"
    /\ handoff' = pix.writes
    /\ Uses({"pix"})
    /\ \E ok \in BOOLEAN :
         IF ok
           THEN /\ opened' = TRUE
                /\ disk' = [exists |-> TRUE, data |-> <<>>]
                /\ Goto("png_create")
                /\ UNCHANGED stderr
           ELSE /\ stderr' = Append(stderr, "fopen")
                /\ Exit(2, "OutputOpenError")
                /\ UNCHANGED <<opened, disk>>
    /\ UNCHANGED <<inVars, stdout, held, acq, rel, rasterVars, out_name, png, rows, stream>>

\* lines 14-17
PngCreate ==
    /\ pc = "png_create"
    /\ png' = "created"
    /\ Goto("png_write_info")
    /\ UNCHANGED <<inVars, ioVars, handleVars, rasterVars, out_name, opened, handoff,
                   rows, stream, disk>>

PngWriteInfo_Swapped ==
    /\ pc = "png_write_info"
    /\ Uses({"pix"})
    /\ \/ /\ stream' = Append(stream, Hdr(pix.h, pix.w, BitDepth, PNG_COLOR_TYPE_GRAY,
                                          PNG_INTERLACE_NONE))
          /\ Goto("malloc_rows")
          /\ UNCHANGED disk
       \/ EncodeFail(stream)
    /\ UNCHANGED <<inVars, ioVars, held, acq, rel, rasterVars, out_name, opened, handoff,
                   png, rows>>

\* lines 19-26
PngWriteInfo ==
    /\ pc = "png_write_info"
    /\ Uses({"pix"})
    /\ \/ /\ stream' = Append(stream, Hdr(pix.w, pix.h, BitDepth, PNG_COLOR_TYPE_GRAY,
                                          PNG_INTERLACE_NONE))
          /\ Goto("malloc_rows")
          /\ UNCHANGED disk
       \/ EncodeFail(stream)
    /\ UNCHANGED <<inVars, ioVars, held, acq, rel, rasterVars, out_name, opened, handoff,
                   png, rows>>

\* lines 28-30
MallocRows ==
    /\ pc = "malloc_rows"
    /\ rows' = RowPointers(pix)
    /\ Uses({"pix"})
    /\ Goto("png_write_image")
    /\ UNCHANGED <<inVars, ioVars, held, acq, rel, rasterVars, out_name, opened, handoff,
                   png, stream, disk>>

\* line 32
PngWriteImage ==
    /\ pc = "png_write_image"
    /\ Uses({"pix"})
    /\ \/ /\ stream' = stream \o WriteRows(rows, pix.h)
          /\ Goto("png_write_end")
          /\ UNCHANGED disk
       \/ \E k \in 0..Min(MaxFailRow, pix.h - 1) :
             EncodeFail(stream \o WriteRows(rows, k))
    /\ UNCHANGED <<inVars, ioVars, held, acq, rel, rasterVars, out_name, opened, handoff,
                   png, rows>>

\* line 33
PngWriteEnd ==
    /\ pc = "png_write_end"
    /\ \/ /\ stream' = Append(stream, End)
          /\ Goto("fclose")
          /\ UNCHANGED disk
       \/ EncodeFail(stream)
    /\ UNCHANGED <<inVars, ioVars, handleVars, rasterVars, out_name, opened, handoff,
                   png, rows>>

\* lines 34-36: fclose's result is not looked at
CloseOutput ==
    /\ pc = "fclose"
    /\ rows' = <<>>
    /\ png' = "destroyed"
    /\ \E d \in Flushed(stream) : disk' = [exists |-> TRUE, data |-> d]
    /\ Goto("printf")
    /\ UNCHANGED <<inVars, ioVars, handleVars, rasterVars, out_name, opened, handoff,
                   stream>>

\* lines 65-67
PrintResult ==
    /\ pc = "printf"
    /\ stdout' = Append(stdout, out_name)
    /\ Goto("drop_device")
    /\ UNCHANGED <<inVars, stderr, handleVars, rasterVars, encVars>>

DropDevice_ContextFirst ==
    /\ pc = "drop_device"
    /\ Release("ctx", {})
    /\ Goto("drop_pixmap")
    /\ UNCHANGED <<inVars, ioVars, rasterVars, encVars>>

\* line 70
DropDevice ==
    /\ pc = "drop_device"
    /\ Release("dev", {"ctx"})
    /\ Goto("drop_pixmap")
    /\ UNCHANGED <<inVars, ioVars, rasterVars, encVars>>

\* line 70
DropPixmap ==
    /\ pc = "drop_pixmap"
    /\ Release("pix", {"ctx"})
    /\ Goto("drop_page")
    /\ UNCHANGED <<inVars, ioVars, rasterVars, encVars>>

\* line 71
DropPage ==
    /\ pc = "drop_page"
    /\ Release("page", {"ctx"})
    /\ Goto("drop_document")
    /\ UNCHANGED <<inVars, ioVars, rasterVars, encVars>>

\* line 71
DropDocument ==
    /\ pc = "drop_document"
    /\ Release("doc", {"ctx"})
    /\ Goto("drop_context")
    /\ UNCHANGED <<inVars, ioVars, rasterVars, encVars>>

\* line 72
DropContext ==
    /\ pc = "drop_context"
    /\ Release("ctx", {})
    /\ Exit(0, "Success")
    /\ UNCHANGED <<inVars, ioVars, rasterVars, encVars>>

\* ------------------------------------------------------------------ claims
Done == pc = "done"
IsPrefix(s, t) == Len(s) <= Len(t) /\ s = SubSeq(t, 1, Len(s))

\* a complete image: header, exactly h scanlines, trailer
WellFormed(d) ==
    /\ Len(d) >= 2
    /\ d[1].kind = "IHDR"
    /\ Len(d) = d[1].h + 2
    /\ \A i \in 2..(Len(d) - 1) : d[i].kind = "ROW"
    /\ d[Len(d)].kind = "IEND"

\* C1: whenever argc is not 3, main has printed the usage line to stderr and
\* ended with status 1 having acquired nothing, allocated no pixmap, and
\* neither attempted to open nor changed the output file.
C1_UsageExit ==
    (pc # "main" /\ argc # 3) =>
        /\ Done /\ exitStatus = 1 /\ cause = "UsageError"
        /\ stderr = <<"usage">> /\ stdout = <<>>
        /\ acq = <<>> /\ held = {} /\ pix = NoPix
        /\ handoff = -1 /\ ~opened /\ stream = <<>> /\ disk = disk0

C1_Witness == Done /\ argc = MaxArgc /\ exitStatus = 1 /\ stderr = <<"usage">>

\* C2 as stated: in every terminated state the output file is absent or a
\* complete image (a file that was there before is still a complete image).
C2_CompleteOrAbsent == Done => (~disk.exists \/ WellFormed(disk.data))

\* C2 amended: a run that never opened the output (exit 1 or 2) leaves the file
\* at the output path exactly as it was; once fopen succeeded the old content is
\* gone and the file holds a prefix of the stream, the full stream having been
\* issued on exit 0, and an incomplete image being left behind on exit 3.
C2_UntouchedUnlessOpened ==
    Done =>
        IF ~opened
          THEN disk = disk0 /\ exitStatus \in {1, 2}
          ELSE /\ exitStatus \in {0, 3}
               /\ disk.exists /\ IsPrefix(disk.data, stream)
               /\ (exitStatus = 0 => WellFormed(stream))
               /\ (exitStatus = 3 => ~WellFormed(disk.data))

C2_Witness ==
    Done /\ exitStatus = 3 /\ disk0 = OldFile /\ Len(disk.data) = 2

\* C3: a missing or unparseable input ends the run with a document-open error
\* and the output file untouched; the output is opened only after document,
\* page and pixmap were acquired and the page was rendered, so no rasterizer
\* failure creates or truncates it.
C3_NoOutputOnOpenError ==
    /\ (Done /\ argc = 3 /\ input \in {"missing", "garbage"}) =>
          (cause = "DocumentOpenError" /\ exitStatus # 0)
    /\ (Done /\ cause \in {"DocumentOpenError", "PageLoadError"}) =>
          (handoff = -1 /\ ~opened /\ disk = disk0)
    /\ (handoff # -1 \/ opened \/ disk # disk0) =>
          /\ acq = <<"ctx", "doc", "page", "pix", "dev">>
          /\ pix.fill = ClearValue /\ pix.writes = 2 /\ dev.closed

C3_Witness ==
    Done /\ input = "missing" /\ cause = "DocumentOpenError" /\ disk0 = OldFile

\* C4: when fopen fails, the process has reported the error on stderr and ended
\* with status 2, with no encoder state, nothing written, the file as it was
\* and no success line on stdout; status 2 arises in no other way.
C4_OutputOpenError ==
    /\ (handoff # -1 /\ ~opened) =>
          /\ Done /\ exitStatus = 2 /\ cause = "OutputOpenError"
          /\ stderr = <<"fopen">> /\ stdout = <<>>
          /\ png = "none" /\ rows = <<>> /\ stream = <<>> /\ disk = disk0
    /\ exitStatus = 2 => (handoff # -1 /\ ~opened)

C4_Witness == Done /\ exitStatus = 2 /\ disk0 = OldFile /\ handoff = 2

\* C5 as stated: for every prefix, the name passed to fopen and the name
\* printed on stdout are the prefix followed by ".png".
C5_NameIsPrefixDotPng ==
    /\ handoff # -1 => out_name = prefix \o DotPng
    /\ stdout # <<>> => stdout[1] = prefix \o DotPng

\* C6 as stated: the header's width and height are the page box scaled by 4
\* and rounded outward (floor of x0, y0; ceiling of x1, y1).
C6_RoundedOutward ==
    stream # <<>> =>
        /\ stream[1].w = Ceil(4 * pagebox.x1) - Floor(4 * pagebox.x0)
        /\ stream[1].h = Ceil(4 * pagebox.y1) - Floor(4 * pagebox.y0)

\* a scaled coordinate farther than the tolerance from the next integer
Clear(v) == (v % Res = 0) \/ (Fuzz <= v % Res /\ v % Res <= Res - Fuzz)

\* C6 amended: the header declares the page box scaled by 4 and rounded with a
\* tolerance of 0.001 pixel: floor(v + 0.001) for x0, y0 and ceil(v - 0.001)
\* for x1, y1, which is outward rounding unless a coordinate lies within
\* 0.001 of an integer; depth 8, grayscale, no interlacing; a 612x792 page
\* gives 2448x3168.
C6_HeaderDimensions ==
    stream # <<>> =>
        /\ stream[1].kind = "IHDR"
        /\ stream[1].w = Ceil(4 * pagebox.x1 - 10) - Floor(4 * pagebox.x0 + 10)
        /\ stream[1].h = Ceil(4 * pagebox.y1 - 10) - Floor(4 * pagebox.y0 + 10)
        /\ stream[1].depth = 8
        /\ stream[1].color = "GRAY"
        /\ stream[1].interlace = "NONE"
        /\ (Clear(4 * pagebox.x0) /\ Clear(4 * pagebox.x1)) =>
              stream[1].w = Ceil(4 * pagebox.x1) - Floor(4 * pagebox.x0)
        /\ (Clear(4 * pagebox.y0) /\ Clear(4 * pagebox.y1)) =>
              stream[1].h = Ceil(4 * pagebox.y1) - Floor(4 * pagebox.y0)
        /\ pagebox = LetterPage => (stream[1].w = 2448 /\ stream[1].h = 3168)

C6_Witness ==
    /\ Done /\ exitStatus = 0 /\ pagebox = LetterPage
    /\ stream[1].w = 2448 /\ stream[1].h = 3168

AfterImage == {"png_write_end", "fclose", "printf", "drop_device", "drop_pixmap",
               "drop_page", "drop_document", "drop_context"}
AfterEnd == AfterImage \ {"png_write_end"}

\* C7: the stream is always the header, then scanline y = bytes at y * stride
\* for y = 0, 1, ... in increasing order, each once, then the trailer; when
\* png_write_image has returned all h scanlines are there, and when
\* png_write_end has returned the trailer follows the last of them.
C7_ScanlinesInOrder ==
    /\ Len(stream) <= pix.h + 2
    /\ \A i \in DOMAIN stream :
          stream[i] = IF i = 1 THEN Hdr(pix.w, pix.h, 8, "GRAY", "NONE")
                      ELSE IF i = pix.h + 2 THEN End
                      ELSE Row((i - 2) * pix.stride)
    /\ pix.stride >= pix.w
    /\ pc \in AfterImage => Len(stream) >= pix.h + 1
    /\ (pc \in AfterEnd \/ exitStatus = 0) => Len(stream) = pix.h + 2

C7_Witness ==
    /\ pc = "fclose" /\ pix.stride > pix.w /\ pix.h = 6
    /\ stream[pix.h + 1] = Row(5 * pix.stride)

\* C8 as stated: once the page has been run, the transform the device applied
\* to the content is the 4x scale the bounding box was computed with.
C8_SameTransform == pix.writes = 2 => ctmEff = mtx

InEncoder ==
    \/ pc \in {"png_create", "png_write_info", "malloc_rows", "png_write_image",
               "png_write_end", "fclose", "printf"}
    \/ Done /\ exitStatus \in {2, 3}

\* C9 as stated: when the pixmap is handed to the encoder the draw device has
\* been released.
C9_DeviceReleasedAtHandoff == handoff # -1 /\ InEncoder => "dev" \notin held

\* C9 amended: when the pixmap is handed to the encoder the draw device has been
\* closed but is still held (it is dropped after the encoder returns); from the
\* hand-off until the encoder finishes the pixmap is held, and it is never
\* written after the hand-off.
C9_DeviceClosedAtHandoff ==
    handoff # -1 =>
        /\ dev.closed
        /\ pix.writes = handoff
        /\ InEncoder => {"pix", "dev"} \subseteq held

C9_Witness == pc = "printf" /\ handoff = 2 /\ "dev" \in held /\ dev.closed

AcqOrder == <<"ctx", "doc", "page", "pix", "dev">>
RelOrder == <<"dev", "pix", "page", "doc", "ctx">>
Range(s) == { s[i] : i \in DOMAIN s }

\* C10: handles are acquired in the order context, document, page, pixmap,
\* device and released in the reverse order, each once, none used after its
\* release; at exit 0 all five were acquired and released and none is held.
C10_ReverseRelease ==
    /\ IsPrefix(acq, AcqOrder)
    /\ IsPrefix(rel, RelOrder)
    /\ held = Range(acq) \ Range(rel)
    /\ ~uaf
    /\ exitStatus = 0 => (acq = AcqOrder /\ rel = RelOrder /\ held = {})

C10_Witness == Done /\ exitStatus = 0 /\ rel = RelOrder /\ held = {}

Next ==
    \/ CheckArgs
    \/ NewContext
    \/ OpenDocument
    \/ LoadPage
    \/ ComputeBBox
    \/ NewPixmap
    \/ ClearPixmap
    \/ NewDrawDevice
    \/ RunPage
    \/ CloseDevice
    \/ FormatName
    \/ Fopen
    \/ PngCreate
    \/ PngWriteInfo
    \/ MallocRows
    \/ PngWriteImage
    \/ PngWriteEnd
    \/ CloseOutput
    \/ PrintResult
    \/ DropDevice
    \/ DropPixmap
    \/ DropPage
    \/ DropDocument
    \/ DropContext

Spec == Init /\ [][Next]_vars
====
